---- MODULE Spec2Model ----
(***************************************************************************)
(* Job orchestration, resumable upload and progress broadcast of the       *)
(* kp-backend repository:                                                  *)
(*   src/Backend/server/backend_skeleton.py  (jobs, poller, uploads)       *)
(*   src/Backend/server/worker.py            (queue worker)                *)
(*   src/Backend/progress_tracker.py         (predictive progress timer)   *)
(***************************************************************************)
EXTENDS Integers, Sequences, FiniteSets, TLC

(***************************************************************************)
(* Bounds of the model.                                                    *)
(***************************************************************************)
MaxJobs == 2
MaxSongs == 2
MaxSessions == 1
MaxIndex == 2
MaxAppends == 3
MaxTime == 7
MaxClock == 24

(***************************************************************************)
(* Program constants.                                                      *)
(***************************************************************************)
\* background_process: for i in range(1, 6)
NumStages == 5

JobIds == 1..MaxJobs
\* poller instances sharing one jobs table: every process that imports
\* backend_skeleton starts one (the server, its reloader parent, the worker)
AllPollers == {1, 2}
\* a file id for which outputs_dir.mkdir raises (a name longer than the
\* file system allows); no song has it
BadFileId == 0
\* file ids of the jobs: the id of the first song, uploaded or not, and
\* the id that makes the work raise
FileIds == {1, BadFileId}
\* str(e) of that exception
MkdirError == "File name too long"

VARIABLES
    jobs,       \* the jobs table: job id -> row
    thr,        \* the in-process thread start_process started for a job
    pollers,    \* the poller instances of this run
    poll,       \* each poller's position in job_poller
    rq,         \* the external queue: job ids enqueued, oldest first
    worker,     \* the queue worker's current execution
    resp,       \* the HTTP response start_process gave for a job
    branch,     \* the branch of start_process that created the job
    outputs,    \* file ids that have an instrumental artifact
    claimedBy   \* history: the pollers that handed a job to background_process

jobVars == <<jobs, thr, pollers, poll, rq, worker, resp, branch, outputs,
             claimedBy>>

VARIABLES
    songs,      \* the songs table: file id -> row
    files,      \* the files of UPLOADS_DIR: file name -> bytes
    sessions,   \* the upload directories: upload id -> directory
    arrival,    \* history of each session's appends: how many, out of index
                \* order or not, some index sent again or not
    built,      \* history: for each song, the upload session it was built from
    last,       \* the last upload request and its response
    inflight    \* the chunk requests that are between open() and write()

uploadVars == <<songs, files, sessions, arrival, built, last, inflight>>

VARIABLES
    now,        \* the clock, in timer periods
    timer,      \* the predictive timer thread of each stage
    stage,      \* what the pipeline did with each stage
    emitted,    \* the last processing_progress event given to socketio.emit
    sample      \* the last value computed by the progress function

progVars == <<now, timer, stage, emitted, sample>>

vars == <<jobVars, uploadVars, progVars>>

----------------------------------------------------------------------------
(***************************************************************************)
(* Songs and resumable uploads.                                            *)
(***************************************************************************)
SongIds == 1..MaxSongs
UploadIds == 1..MaxSessions
ChunkIndices == 0..MaxIndex
\* request bodies, as byte sequences
Bodies == {<<1>>, <<2, 3>>}
\* the original file names a client gives: none, "a.w"
FileNames == {<<>>, <<"a", ".", "w">>}
None == "None"
EmptyMeta == [k \in {} |-> None]

NoSong == [state |-> "none", title |-> None, artist |-> None,
           filename |-> <<>>, metadata |-> EmptyMeta]

NumSongs == Cardinality({f \in SongIds : songs[f].state # "none"})

\* os.path.splitext(name)[1]: from the last dot, unless only dots precede it
SplitExt(name) ==
    LET dots == {i \in 1..Len(name) : name[i] = "."} IN
    IF dots = {} THEN <<>>
    ELSE LET d == CHOOSE i \in dots : \A k \in dots : k <= i IN
         IF \A i \in 1..(d - 1) : name[i] = "." THEN <<>>
         ELSE SubSeq(name, d, Len(name))

DefaultExt == <<".", "b", "i", "n">>

\* os.path.splitext(name)[1] or ".bin"
ExtOf(name) == IF SplitExt(name) = <<>> THEN DefaultExt ELSE SplitExt(name)

\* f"{file_id}{ext}"
FinalName(fid, ext) == <<fid>> \o ext

\* the directory with one file written (created or replaced)
WriteFile(dir, name, data) ==
    [n \in DOMAIN dir \cup {name} |-> IF n = name THEN data ELSE dir[n]]

\* JSON values: a string stands for itself and None for null; a number and
\* a boolean are written with their type
JsonFive == "number 5"
JsonTrue == "boolean true"

\* lines 67-69: title TEXT, artist TEXT. A value bound to a column of TEXT
\* affinity is stored as text: sqlite3 binds 5 as INTEGER 5 and True as
\* INTEGER 1, and SQLite stores their decimal text; null stays NULL
TextAffinity(v) ==
    CASE v = JsonFive -> "5"
      [] v = JsonTrue -> "1"
      [] OTHER -> v

\* the row both upload and complete_upload insert; the metadata column holds
\* json.dumps(meta), which json.loads reads back with every type kept
SongRow(name, meta) ==
    [state |-> "live",
     title |-> TextAffinity(IF "title" \in DOMAIN meta THEN meta["title"] ELSE None),
     artist |-> TextAffinity(IF "artist" \in DOMAIN meta THEN meta["artist"] ELSE None),
     filename |-> name, metadata |-> meta]

NotBuilt == [upload |-> 0, arrival |-> [count |-> 0, unordered |-> FALSE,
                                       resent |-> FALSE],
             dir |-> EmptyMeta]

NoRequest == [op |-> "none", id |-> 0, idx |-> 0, data |-> <<>>, code |-> 0,
              file_id |-> 0]

\* POST /upload: one file, stored whole
upload(name, data, meta) ==
    /\ NumSongs < MaxSongs
    /\ IF name = <<>>
       THEN /\ last' = [op |-> "upload", id |-> 0, idx |-> 0, data |-> data,
                        code |-> 400, file_id |-> 0]
            /\ UNCHANGED <<songs, files, built>>
       ELSE LET fid == NumSongs + 1
                fname == FinalName(fid, ExtOf(name)) IN
            /\ files' = WriteFile(files, fname, data)
            /\ songs' = [songs EXCEPT ![fid] = SongRow(fname, meta)]
            /\ built' = [built EXCEPT ![fid] = NotBuilt]
            /\ last' = [op |-> "upload", id |-> 0, idx |-> 0, data |-> data,
                        code |-> 201, file_id |-> fid]
    /\ UNCHANGED <<jobVars, progVars, sessions, arrival, inflight>>

\* GET /download/<file_id>: the original upload
download(fid) ==
    IF songs[fid].state # "live" THEN [code |-> 404, data |-> <<>>]
    ELSE IF songs[fid].filename \notin DOMAIN files
         THEN [code |-> 404, data |-> <<>>]
         ELSE [code |-> 200, data |-> files[songs[fid].filename]]

\* the metadata form field of an upload, parsed
Metas == {EmptyMeta, [title |-> "t1", artist |-> "a1"]}
\* the JSON bodies of PATCH /songs/<id>
Patches == {EmptyMeta, [title |-> "t2"], [artist |-> "a2", lyrics |-> "l"]}

\* existing.update(body)
Merge(existing, body) ==
    [k \in DOMAIN existing \cup DOMAIN body |->
        IF k \in DOMAIN body THEN body[k] ELSE existing[k]]

\* metadata objects and PATCH bodies whose entries are JSON values of any
\* scalar type
TypedMetas == Metas \cup {[title |-> JsonFive]}
TypedPatches == {[title |-> "t2"], [artist |-> JsonTrue], [title |-> None]}

\* d.get(key)
Get(d, key) == IF key \in DOMAIN d THEN d[key] ELSE None

\* a column taken from the body alone
ColumnFromBody(body, existing, key) == Get(body, key)

\* body.get(key, existing.get(key)), existing already updated with the body
PatchedColumn(body, existing, key) ==
    IF key \in DOMAIN body THEN body[key] ELSE Get(existing, key)

\* PATCH /songs/<file_id>
patch_song(f, body) ==
    /\ IF songs[f].state # "live"
       THEN /\ songs' = songs
            /\ last' = [op |-> "patch", id |-> f, idx |-> 0, data |-> <<>>,
                        code |-> 404, file_id |-> 0, body |-> body]
       ELSE LET existing == Merge(songs[f].metadata, body) IN
            /\ songs' = [songs EXCEPT ![f].title = TextAffinity(PatchedColumn(body, existing, "title")),
                                      ![f].artist = TextAffinity(PatchedColumn(body, existing, "artist")),
                                      ![f].metadata = existing]
            /\ last' = [op |-> "patch", id |-> f, idx |-> 0, data |-> <<>>,
                        code |-> 200, file_id |-> f, body |-> body]
    /\ UNCHANGED <<jobVars, progVars, files, sessions, arrival, built, inflight>>

\* an unlink that empties the upload root
RemoveAllFiles(dir, name) == EmptyMeta

\* the directory without one file
RemoveFile(dir, name) == [n \in DOMAIN dir \ {name} |-> dir[n]]

\* the row of a song that was deleted: its id is not given out again
DeletedSong == [NoSong EXCEPT !.state = "deleted"]

\* DELETE /songs/<file_id>, lines 204-210: look the row up and unlink its
\* file; without a row the rest of the handler changes nothing and answers 204
delete_song(f) ==
    /\ IF songs[f].state # "live"
       THEN /\ files' = files
            /\ last' = [op |-> "delete", id |-> f, idx |-> 0, data |-> <<>>,
                        code |-> 204, file_id |-> 0]
       ELSE /\ songs[f].filename \in DOMAIN files
            /\ files' = RemoveFile(files, songs[f].filename)
            /\ last' = last
    /\ UNCHANGED <<jobVars, progVars, songs, sessions, arrival, built, inflight>>

\* DELETE /songs/<file_id>, lines 211-214: the file is gone (unlinked, or
\* FileNotFoundError was passed over); delete the row and answer 204
delete_song_row(f) ==
    /\ songs[f].state = "live"
    /\ songs[f].filename \notin DOMAIN files
    /\ songs' = [songs EXCEPT ![f] = DeletedSong]
    /\ last' = [op |-> "delete", id |-> f, idx |-> 0, data |-> <<>>,
                code |-> 204, file_id |-> f]
    /\ UNCHANGED <<jobVars, progVars, files, sessions, arrival, built, inflight>>

(***************************************************************************)
(* Chunk file names, as sequences of character codes.                      *)
(***************************************************************************)
\* the field width of f"chunk-{idx:06d}.part"
ChunkWidth == 6
\* "chunk-"
ChunkPrefix == <<99, 104, 117, 110, 107, 45>>
\* ".part"
PartSuffix == <<46, 112, 97, 114, 116>>

RECURSIVE Digits(_)
Digits(n) ==
    IF n < 10 THEN <<48 + n>> ELSE Append(Digits(n \div 10), 48 + (n % 10))

RECURSIVE ZeroPad(_, _)
ZeroPad(s, w) == IF Len(s) >= w THEN s ELSE ZeroPad(<<48>> \o s, w)

\* format(idx, "06d"): the sign counts in the width
Format06d(idx) ==
    IF idx < 0 THEN <<45>> \o ZeroPad(Digits(-idx), ChunkWidth - 1)
    ELSE ZeroPad(Digits(idx), ChunkWidth)

ChunkName(idx) == ChunkPrefix \o Format06d(idx) \o PartSuffix

\* str.__lt__: by code point, a proper prefix first
RECURSIVE LexLess(_, _)
LexLess(a, b) ==
    IF a = <<>> THEN b # <<>>
    ELSE IF b = <<>> THEN FALSE
    ELSE IF Head(a) # Head(b) THEN Head(a) < Head(b)
    ELSE LexLess(Tail(a), Tail(b))

\* p.name.startswith("chunk-")
IsChunk(name) ==
    Len(name) >= Len(ChunkPrefix) /\ SubSeq(name, 1, Len(ChunkPrefix)) = ChunkPrefix

\* sorted([p for p in upload_dir.iterdir() if p.name.startswith("chunk-")])
RECURSIVE SortedNames(_)
SortedNames(S) ==
    IF S = {} THEN <<>>
    ELSE LET m == CHOOSE x \in S : \A y \in S \ {x} : LexLess(x, y)
         IN <<m>> \o SortedNames(S \ {m})

RECURSIVE Reverse(_)
Reverse(q) == IF q = <<>> THEN <<>> ELSE Append(Reverse(Tail(q)), Head(q))

\* the parts as a listing in another order returns them
UnsortedParts(dir) == Reverse(SortedNames({n \in DOMAIN dir : IsChunk(n)}))

SortedParts(dir) == SortedNames({n \in DOMAIN dir : IsChunk(n)})

\* the bytes written to the final file: each part in turn
RECURSIVE Assemble(_, _)
Assemble(dir, parts) ==
    IF parts = <<>> THEN <<>>
    ELSE dir[Head(parts)] \o Assemble(dir, Tail(parts))

(***************************************************************************)
(* create_upload, upload_chunk, complete_upload                            *)
(***************************************************************************)
NoSession == [state |-> "unused", meta |-> <<>>, dir |-> EmptyMeta]

NumSessions == Cardinality({u \in UploadIds : sessions[u].state # "unused"})

\* the directory create_upload made for u is there
DirExists(u) == sessions[u].state = "open"

\* the upload_id of a request is a path component under UPLOADS_DIR, the
\* directory that also holds the final files: FilePath(f) stands for the
\* upload_id that spells the file name of song f
FilePath(f) == MaxSessions + f

RequestIds == UploadIds \cup {FilePath(f) : f \in SongIds}

\* the song whose file name the upload_id spells
FileAt(u) == u - MaxSessions

\* upload_dir.exists(): true of a directory and of a regular file
PathExists(u) ==
    IF u \in UploadIds THEN DirExists(u)
    ELSE /\ songs[FileAt(u)].state = "live"
         /\ songs[FileAt(u)].filename \in DOMAIN files

\* can files be opened and listed under the path
IsDir(u) == u \in UploadIds /\ DirExists(u)

NoArrival == [count |-> 0, unordered |-> FALSE, resent |-> FALSE]

RECURSIVE SumCount(_, _)
SumCount(f, S) ==
    IF S = {} THEN 0
    ELSE LET x == CHOOSE y \in S : TRUE IN f[x].count + SumCount(f, S \ {x})

NumAppends == SumCount(arrival, UploadIds)

\* the history after chunk idx arrived in a session holding dir
Arrived(a, dir, idx) ==
    [count |-> a.count + 1,
     unordered |-> a.unordered \/ \E i \in ChunkIndices :
                        i > idx /\ ChunkName(i) \in DOMAIN dir,
     resent |-> a.resent \/ ChunkName(idx) \in DOMAIN dir]

\* POST /uploads: name is the "filename" entry of the metadata, <<>> if none
create_upload(name) ==
    /\ NumSessions < MaxSessions
    /\ LET u == NumSessions + 1 IN
        /\ sessions' = [sessions EXCEPT ![u] = [state |-> "open", meta |-> name,
                                                dir |-> EmptyMeta]]
        /\ last' = [op |-> "create", id |-> u, idx |-> 0, data |-> <<>>,
                    code |-> 201, file_id |-> 0]
    /\ UNCHANGED <<jobVars, progVars, songs, files, arrival, built, inflight>>

\* a chunk file opened with "ab": a retry adds to what is there
ChunkAppended(dir, idx, data) ==
    WriteFile(dir, ChunkName(idx),
              IF ChunkName(idx) \in DOMAIN dir THEN dir[ChunkName(idx)] \o data
              ELSE data)

\* the chunk file after open(chunk_path, "wb") and write
ChunkWritten(dir, idx, data) == WriteFile(dir, ChunkName(idx), data)

\* POST /uploads/<upload_id>/chunk with X-Chunk-Index: idx
upload_chunk(u, idx, data) ==
    /\ NumAppends < MaxAppends
    /\ IF ~PathExists(u)
       THEN /\ last' = [op |-> "chunk", id |-> u, idx |-> 0, data |-> <<>>,
                        code |-> 404, file_id |-> 0]
            /\ UNCHANGED <<sessions, arrival>>
       ELSE IF ~IsDir(u)
       \* open(chunk_path, "wb") raises NotADirectoryError
       THEN /\ last' = [op |-> "chunk", id |-> u, idx |-> 0, data |-> <<>>,
                        code |-> 500, file_id |-> 0]
            /\ UNCHANGED <<sessions, arrival>>
       ELSE /\ sessions' = [sessions EXCEPT
                               ![u].dir = ChunkWritten(@, idx, data)]
            /\ arrival' = [arrival EXCEPT
                               ![u] = Arrived(@, sessions[u].dir, idx)]
            /\ last' = [op |-> "chunk", id |-> u, idx |-> idx, data |-> data,
                        code |-> 204, file_id |-> 0]
    /\ UNCHANGED <<jobVars, progVars, songs, files, built, inflight>>

\* a completion that accepts an empty list of parts
NoChunksAccepted(parts) == FALSE

\* a completion that wants the parts 0..n-1 without a gap
NotContiguous(parts) == parts # [i \in 1..Len(parts) |-> ChunkName(i - 1)]

\* "if not parts"
NoChunks(parts) == parts = <<>>

\* a cleanup that leaves the directory where it is
KeepTree(sess) == sess

\* shutil.rmtree(upload_dir)
RemoveTree(sess) == [state |-> "removed", meta |-> <<>>, dir |-> EmptyMeta]

\* POST /uploads/<upload_id>/complete
complete_upload(u) ==
    /\ NumSongs < MaxSongs
    /\ IF ~PathExists(u)
       THEN /\ last' = [op |-> "complete", id |-> u, idx |-> 0, data |-> <<>>,
                        code |-> 404, file_id |-> 0]
            /\ UNCHANGED <<songs, files, sessions, arrival, built>>
       ELSE IF ~IsDir(u)
       \* upload_dir.iterdir() raises NotADirectoryError
       THEN /\ last' = [op |-> "complete", id |-> u, idx |-> 0, data |-> <<>>,
                        code |-> 500, file_id |-> 0]
            /\ UNCHANGED <<songs, files, sessions, arrival, built>>
       ELSE IF NoChunks(SortedParts(sessions[u].dir))
       THEN /\ last' = [op |-> "complete", id |-> u, idx |-> 0, data |-> <<>>,
                        code |-> 400, file_id |-> 0]
            /\ UNCHANGED <<songs, files, sessions, arrival, built>>
       ELSE LET fid == NumSongs + 1
                fname == FinalName(fid, ExtOf(sessions[u].meta))
                data == Assemble(sessions[u].dir, SortedParts(sessions[u].dir))
            IN
            /\ files' = WriteFile(files, fname, data)
            /\ songs' = [songs EXCEPT ![fid] = SongRow(fname, EmptyMeta)]
            /\ sessions' = [sessions EXCEPT ![u] = RemoveTree(@)]
            /\ built' = [built EXCEPT ![fid] = [upload |-> u,
                            arrival |-> arrival[u], dir |-> sessions[u].dir]]
            /\ arrival' = arrival
            /\ last' = [op |-> "complete", id |-> u, idx |-> 0, data |-> <<>>,
                        code |-> 201, file_id |-> fid]
    /\ UNCHANGED <<jobVars, progVars, inflight>>

(***************************************************************************)
(* upload_chunk in two request threads: open(chunk_path, "wb") and          *)
(* fh.write(...) are separate steps, each thread has its own file offset.  *)
(***************************************************************************)
\* the request threads that handle chunk requests at the same time
Writers == {1, 2}

NoWriter == [pc |-> "idle", id |-> 0, idx |-> 0, data |-> <<>>,
             before |-> EmptyMeta]

\* write(data) at offset 0 of a file holding old: bytes past the end of
\* data stay
WriteAt(old, data) ==
    IF Len(old) > Len(data)
    THEN data \o SubSeq(old, Len(data) + 1, Len(old))
    ELSE data

\* line 471: the file is created or truncated
ChunkOpen(w, u, idx, data) ==
    /\ inflight[w].pc = "idle"
    /\ DirExists(u)
    /\ sessions' = [sessions EXCEPT ![u].dir = WriteFile(@, ChunkName(idx), <<>>)]
    /\ inflight' = [inflight EXCEPT ![w] = [pc |-> "opened", id |-> u,
                        idx |-> idx, data |-> data, before |-> sessions[u].dir]]
    /\ UNCHANGED <<jobVars, progVars, songs, files, arrival, built, last>>

\* lines 472-473: the body is written through the thread's own descriptor,
\* the file is closed and 204 returned
ChunkWrite(w) ==
    /\ inflight[w].pc = "opened"
    /\ LET u == inflight[w].id
           name == ChunkName(inflight[w].idx) IN
        /\ sessions' = IF DirExists(u) /\ name \in DOMAIN sessions[u].dir
                       THEN [sessions EXCEPT ![u].dir =
                               WriteFile(@, name, WriteAt(@[name], inflight[w].data))]
                       ELSE sessions
        /\ last' = [op |-> "chunk", id |-> u, idx |-> inflight[w].idx,
                    data |-> inflight[w].data, code |-> 204, file_id |-> 0]
    /\ inflight' = [inflight EXCEPT ![w].pc = "done"]
    /\ UNCHANGED <<jobVars, progVars, songs, files, arrival, built>>

(***************************************************************************)
(* complete_upload in two request threads: the listing of the parts, the   *)
(* assembly with the INSERT, and the rmtree are separate steps.            *)
(***************************************************************************)
\* lines 482-490: the directory is tested and its parts are listed
CompleteList(w, u) ==
    /\ inflight[w].pc = "idle"
    /\ IF ~DirExists(u)
       THEN /\ last' = [op |-> "complete", id |-> u, idx |-> 0, data |-> <<>>,
                        code |-> 404, file_id |-> 0]
            /\ inflight' = inflight
       ELSE IF NoChunks(SortedParts(sessions[u].dir))
       THEN /\ last' = [op |-> "complete", id |-> u, idx |-> 0, data |-> <<>>,
                        code |-> 400, file_id |-> 0]
            /\ inflight' = inflight
       ELSE /\ last' = last
            /\ inflight' = [inflight EXCEPT ![w] = [pc |-> "listed", id |-> u,
                                idx |-> 0, data |-> <<>>, before |-> sessions[u].dir]]
    /\ UNCHANGED <<jobVars, progVars, songs, files, sessions, arrival, built>>

\* lines 491-520: the final file is opened, the listed parts are read and
\* written to it, the song is inserted; a listed part that is gone raises
\* FileNotFoundError and leaves the opened final file without a song
CompleteAssemble(w) ==
    /\ inflight[w].pc = "listed"
    /\ NumSongs < MaxSongs
    /\ LET u == inflight[w].id
           parts == SortedParts(inflight[w].before) IN
       IF \E i \in 1..Len(parts) : parts[i] \notin DOMAIN sessions[u].dir
       THEN /\ files' = WriteFile(files, FinalName(0 - w, DefaultExt), <<>>)
            /\ inflight' = [inflight EXCEPT ![w].pc = "done"]
            /\ last' = [op |-> "complete", id |-> u, idx |-> 0, data |-> <<>>,
                        code |-> 500, file_id |-> 0]
            /\ UNCHANGED <<songs, built>>
       ELSE LET fid == NumSongs + 1
                fname == FinalName(fid, ExtOf(sessions[u].meta))
                read == [n \in {parts[i] : i \in 1..Len(parts)} |-> sessions[u].dir[n]]
            IN
            /\ files' = WriteFile(files, fname, Assemble(read, parts))
            /\ songs' = [songs EXCEPT ![fid] = SongRow(fname, EmptyMeta)]
            /\ built' = [built EXCEPT ![fid] = [upload |-> u,
                            arrival |-> arrival[u], dir |-> read]]
            /\ inflight' = [inflight EXCEPT ![w].pc = "inserted", ![w].idx = fid]
            /\ last' = last
    /\ UNCHANGED <<jobVars, progVars, sessions, arrival>>

\* lines 521-528: rmtree, whose failure is passed over, and the 201 answer
CompleteRemove(w) ==
    /\ inflight[w].pc = "inserted"
    /\ LET u == inflight[w].id IN
        /\ sessions' = IF DirExists(u) THEN [sessions EXCEPT ![u] = RemoveTree(@)]
                       ELSE sessions
        /\ last' = [op |-> "complete", id |-> u, idx |-> 0, data |-> <<>>,
                    code |-> 201, file_id |-> inflight[w].idx]
    /\ inflight' = [inflight EXCEPT ![w].pc = "done"]
    /\ UNCHANGED <<jobVars, progVars, songs, files, arrival, built>>

InitUpload ==
    /\ songs = [f \in SongIds |-> NoSong]
    /\ files = EmptyMeta
    /\ sessions = [u \in UploadIds |-> NoSession]
    /\ arrival = [u \in UploadIds |-> NoArrival]
    /\ built = [f \in SongIds |-> NotBuilt]
    /\ last = NoRequest
    /\ inflight = [w \in Writers |-> NoWriter]

Create == \E name \in FileNames : create_upload(name)
Chunk == \E u \in UploadIds, idx \in ChunkIndices, data \in Bodies :
            upload_chunk(u, idx, data)
Complete == \E u \in UploadIds : complete_upload(u)

\* values int() parses from the X-Chunk-Index header, also negative ones
\* and ones of more than six digits
WideIndices == ChunkIndices \cup {-2, -1, 999999, 1000000}

\* requests with any upload_id and any index
ChunkAny == \E u \in RequestIds, idx \in WideIndices, data \in Bodies :
               upload_chunk(u, idx, data)
CompleteAny == \E u \in RequestIds : complete_upload(u)

\* the song requests
UploadMeta == \E meta \in Metas : upload(<<"a", ".", "w">>, <<1>>, meta)
Patch == \E f \in SongIds, body \in Patches : patch_song(f, body)
Delete == \E f \in SongIds : delete_song(f)
DeleteRow == \E f \in SongIds : delete_song_row(f)

UploadTyped == \E meta \in TypedMetas : upload(<<"a", ".", "w">>, <<1>>, meta)
PatchTyped == \E f \in SongIds, body \in TypedPatches : patch_song(f, body)

NextSongs ==
    \/ UploadMeta
    \/ Patch
    \/ Delete
    \/ DeleteRow

NextUpload ==
    \/ Create
    \/ Chunk
    \/ Complete

\* songs made by POST /upload and by a completed session, and patched
NextColumns ==
    \/ UploadTyped
    \/ PatchTyped
    \/ Create
    \/ Chunk
    \/ Complete

----------------------------------------------------------------------------
(***************************************************************************)
(* progress_tracker.py: the predictive progress curve, in fixed point.     *)
(* Times are counted in timer periods (time.sleep(0.5)), progress in       *)
(* thousandths of a percentage point.                                      *)
(***************************************************************************)
\* fixed-point scale of the powers of 2.718
Scale == 40000
\* 2.718, in thousandths
EulerMilli == 2718
\* 95 / (1 + ...): "Max 95% predictively"
Cap == 95
\* (elapsed / estimated_time) * 12 - 6
SigmoidSpan == 12
SigmoidShift == 6
\* "if progress - last_progress >= 1", in thousandths
MinDelta == 1000
\* exponents are multiples of 1 / Grid
Grid == 30

\* a * b / Scale, rounded
MulFix(a, b) == (a * b + Scale \div 2) \div Scale

RECURSIVE PowFix(_, _)
PowFix(r, n) == IF n = 0 THEN Scale ELSE MulFix(PowFix(r, n - 1), r)

\* 2.718 ** -1, scaled
InvEuler == (Scale * 1000 + EulerMilli \div 2) \div EulerMilli

\* the largest r in lo..hi with r ** Grid <= 2.718 ** -1
RECURSIVE RootSearch(_, _)
RootSearch(lo, hi) ==
    IF lo >= hi THEN lo
    ELSE LET mid == (lo + hi + 1) \div 2 IN
         IF PowFix(mid, Grid) <= InvEuler THEN RootSearch(mid, hi)
         ELSE RootSearch(lo, mid - 1)

\* 2.718 ** (-1 / Grid), scaled
InvRoot == RootSearch(1, Scale)

\* 2.718 ** (-k / Grid), scaled, for k >= 0
Decay(k) == MulFix(PowFix(InvEuler, k \div Grid), PowFix(InvRoot, k % Grid))

\* floor(1000 * n / d) without leaving 32 bits
Milli(n, d) == (n \div d) * 1000 + ((n % d) * 1000) \div d

\* cap / (1 + 2.718 ** (-x)) for x = k / Grid, in thousandths
Sigmoid(cap, k) ==
    IF k >= 0 THEN Milli(cap * Scale, Scale + Decay(k))
    ELSE Milli(cap * Decay(-k), Decay(-k) + Scale)

\* a normalized time that runs backwards
TNormalizedReversed(elapsed, estimated) ==
    SigmoidShift * Grid - (SigmoidSpan * Grid * elapsed) \div estimated

\* t_normalized * Grid, for the estimated times that keep it whole
TNormalized(elapsed, estimated) ==
    (SigmoidSpan * Grid * elapsed) \div estimated - SigmoidShift * Grid

\* a curve that approaches 100
UncappedProgress(elapsed, estimated) ==
    Sigmoid(100, TNormalized(elapsed, estimated))

\* lines 225-226: the value the timer computes
PredictiveProgress(elapsed, estimated) ==
    Sigmoid(Cap, TNormalized(elapsed, estimated))

\* an emit_progress that passes the value on as it is
ClampNone(p) == p

\* emit_progress: min(100, max(0, progress))
Clamp(p) == IF p < 0 THEN 0 ELSE IF p > 100000 THEN 100000 ELSE p

(***************************************************************************)
(* ProgressTracker: the stages and their timer threads.                    *)
(***************************************************************************)
Stages == {"separation", "transcription"}
\* every stage that has a complete_* method
AllStages == Stages \cup {"upload", "karaoke"}
\* estimated times of the timers of the model, in periods
TimerTimes == {4, 6}
\* estimated times the curve is sampled for: 10 s, 15 s, 45 s, 180 s
CurveTimes == {20, 30, 90, 360}
\* estimated times _start_predictive_progress is called with on its own: none
\* left, less than none, and 10 s
LongTimes == {-2, 0, 20}
\* progress values a caller passes to update_*_progress
CallerValues == {-1000, 50000, 150000}

\* count: the events the timer thread has emitted
NoTimer == [state |-> "none", start |-> 0, last |-> 0, estimated |-> 0,
            wake |-> 0, count |-> 0]

\* self.file_id
TrackerFile == "file"

\* emit_progress: the data of a 'processing_progress' event; k tells which
\* call made it and stands for its message
Event(s, p, k) == [file_id |-> TrackerFile, stage |-> s, progress |-> p,
                   message |-> k, kind |-> k]

\* the data emit_error sends, without emit_progress
ErrorEvent(s) == [file_id |-> TrackerFile, stage |-> s, progress |-> 0,
                  message |-> "error", kind |-> "error", error |-> TRUE]

\* the data complete_all sends, without emit_progress
AllDoneEvent == [file_id |-> TrackerFile, stage |-> "complete", progress |-> 100000,
                 message |-> "all", kind |-> "all", total_time |-> TRUE]

\* start_separation_progress, start_transcription_progress: the event with
\* progress 0, then _start_predictive_progress(stage, estimated_time)
start_progress(s, est) ==
    /\ stage[s] = "idle"
    /\ stage' = [stage EXCEPT ![s] = "started"]
    /\ emitted' = Event(s, Clamp(0), "start")
    /\ timer' = [timer EXCEPT ![s] = [state |-> "running", start |-> now,
                    last |-> 0, estimated |-> est, wake |-> now, count |-> 0]]
    /\ UNCHANGED <<jobVars, uploadVars, now, sample>>

\* a completion that reports the cap of the predictive curve
CompleteEventAtCap(s) == Event(s, Clamp(Cap * 1000), "complete")

\* self.emit_progress(stage, 100, ...)
CompleteEvent(s) == Event(s, Clamp(100000), "complete")

\* complete_upload, complete_separation, complete_transcription,
\* complete_karaoke: the event with progress 100, whether or not the stage
\* was started; the timer thread of the stage is not told
complete_stage(s) ==
    /\ stage[s] \in {"idle", "started"}
    /\ stage' = [stage EXCEPT ![s] = "completed"]
    /\ emitted' = CompleteEvent(s)
    /\ UNCHANGED <<jobVars, uploadVars, now, timer, sample>>

\* update_separation_progress, update_transcription_progress,
\* update_karaoke_progress: emit_progress with the caller's value
update_stage_progress(s, p) ==
    /\ stage[s] \in {"idle", "started"}
    /\ emitted' = Event(s, Clamp(p), "update")
    /\ UNCHANGED <<jobVars, uploadVars, now, timer, stage, sample>>

\* emit_error(stage, error_message)
emit_error(s) ==
    /\ stage[s] = "started"
    /\ stage' = [stage EXCEPT ![s] = "failed"]
    /\ emitted' = ErrorEvent(s)
    /\ UNCHANGED <<jobVars, uploadVars, now, timer, sample>>

\* complete_all
complete_all ==
    /\ emitted.kind # "all"
    /\ emitted' = AllDoneEvent
    /\ UNCHANGED <<jobVars, uploadVars, now, timer, stage, sample>>

\* a loop that runs one period longer
TimeUpLate(elapsed, estimated) == elapsed > estimated

\* line 220: if elapsed >= estimated_time: break
TimeUp(elapsed, estimated) == elapsed >= estimated

\* a throttle that lets every increase through
ThrottledAny(progress, previous) == progress > previous

\* line 229: if progress - last_progress >= 1
Throttled(progress, previous) == progress - previous >= MinDelta

\* one iteration of update_progress, the body of the timer thread
update_progress(s) ==
    /\ timer[s].state = "running"
    /\ now >= timer[s].wake
    /\ LET t == timer[s]
           elapsed == now - t.start IN
        IF TimeUp(elapsed, t.estimated)
        THEN /\ timer' = [timer EXCEPT ![s].state = "exited"]
             /\ emitted' = emitted
        ELSE IF t.estimated = 0
        THEN \* elapsed / estimated_time raises ZeroDivisionError in the thread
             /\ timer' = [timer EXCEPT ![s].state = "crashed"]
             /\ emitted' = emitted
        ELSE LET progress == PredictiveProgress(elapsed, t.estimated) IN
             /\ IF Throttled(progress, t.last)
                THEN /\ emitted' = Event(s, Clamp(progress), "predictive")
                     /\ timer' = [timer EXCEPT ![s].last = progress,
                                               ![s].wake = now + 1,
                                               ![s].count = @ + 1]
                ELSE /\ emitted' = emitted
                     /\ timer' = [timer EXCEPT ![s].wake = now + 1]
    /\ UNCHANGED <<jobVars, uploadVars, now, stage, sample>>

\* half a second passes, up to the last instant of the clock
TickTo(limit) ==
    /\ now < limit
    /\ now' = now + 1
    /\ UNCHANGED <<jobVars, uploadVars, timer, stage, emitted, sample>>

Tick == TickTo(MaxTime)

NoSample == [t |-> 0, estimated |-> 0, value |-> 0, event |-> 0]

\* the curve evaluated at one point of 0..estimated, and the value
\* emit_progress would put in the event
SampleCurve(elapsed, est) ==
    /\ sample = NoSample
    /\ sample' = [t |-> elapsed, estimated |-> est,
                  value |-> PredictiveProgress(elapsed, est),
                  event |-> Clamp(PredictiveProgress(elapsed, est))]
    /\ UNCHANGED <<jobVars, uploadVars, now, timer, stage, emitted>>


InitProgress ==
    /\ now = 0
    /\ timer = [s \in Stages |-> NoTimer]
    /\ stage = [s \in AllStages |-> "idle"]
    /\ emitted = Event("", 0, "none")
    /\ sample = NoSample

StartStage == \E s \in Stages, est \in TimerTimes : start_progress(s, est)
CompleteStage == \E s \in Stages : complete_stage(s)
FailStage == \E s \in Stages : emit_error(s)
TimerStep == \E s \in Stages : update_progress(s)

NextProgress ==
    \/ StartStage
    \/ CompleteStage
    \/ FailStage
    \/ TimerStep
    \/ Tick

\* one timer run on a clock long enough for a 10 s estimate
StartLong == \E est \in TimerTimes \cup LongTimes : start_progress("separation", est)
StepLong == update_progress("separation")
TickLong == TickTo(MaxClock)

NextTimer ==
    \/ StartLong
    \/ StepLong
    \/ TickLong

\* the calls of one tracker with one timer: every complete_* and update_*
\* method with any value, emit_error and complete_all
StartOne == \E est \in TimerTimes : start_progress("separation", est)
CompleteAnyStage == \E s \in AllStages : complete_stage(s)
UpdateStage == \E s \in AllStages \ {"upload"}, p \in CallerValues :
                  update_stage_progress(s, p)
CompleteAll == complete_all

NextEvents ==
    \/ StartOne
    \/ CompleteAnyStage
    \/ UpdateStage
    \/ FailStage
    \/ CompleteAll
    \/ StepLong
    \/ Tick

NextCurve == \E est \in CurveTimes : \E elapsed \in 0..est :
                SampleCurve(elapsed, est)

----------------------------------------------------------------------------
(***************************************************************************)
(* The jobs table.                                                         *)
(***************************************************************************)
NoRow == [status |-> "none", progress |-> 0, message |-> "", file_id |-> 0,
          model |-> "", created_at |-> 0]

\* the <model> of POST /process/<model>/<file_id>
ModelName == "demucs"

Exists(j) == jobs[j].status # "none"

\* the number of rows: uuid4 ids are fresh, so ids are handed out in turn
NumJobs == Cardinality({j \in JobIds : Exists(j)})

\* i / 5.0, in hundredths
StageProgress(i) == (i * 100) \div NumStages

StageMessage(i) == <<"stage 1", "stage 2", "stage 3", "stage 4", "stage 5">>[i]

\* a write that replaces the row: columns not given fall back to their defaults
UpdateRowReplace(table, j, patch) ==
    [table EXCEPT ![j] = [f \in DOMAIN table[j] |->
        IF f \in DOMAIN patch THEN patch[f] ELSE NoRow[f]]]

\* "UPDATE jobs SET ... WHERE id=?": the given columns of one row
UpdateRow(table, j, patch) ==
    [table EXCEPT ![j] = [f \in DOMAIN table[j] |->
        IF f \in DOMAIN patch THEN patch[f] ELSE table[j][f]]]

\* GET /status/<job_id>: the row as it is stored
job_status(j) ==
    IF j \notin JobIds \/ jobs[j].status = "none" THEN [code |-> 404]
    ELSE [code |-> 200, status |-> jobs[j].status,
          progress |-> jobs[j].progress, message |-> jobs[j].message,
          file_id |-> jobs[j].file_id, model |-> jobs[j].model]

----------------------------------------------------------------------------
(***************************************************************************)
(* background_process(job_id, file_id, model): one execution is a record   *)
(* [job, pc, i]; pc is the next statement that touches shared state.       *)
(***************************************************************************)
Idle == [job |-> 0, pc |-> "idle", i |-> 0]

BPStart(j) == [job |-> j, pc |-> "stage", i |-> 1]

Running(e) == e.pc \notin {"idle", "done"}

\* an except branch that records nothing
BPWriteSilent(table, e) ==
    CASE e.pc = "stage" ->
            UpdateRow(table, e.job, [progress |-> StageProgress(e.i),
                                     message |-> StageMessage(e.i)])
      [] e.pc = "final" ->
            UpdateRow(table, e.job, [status |-> "completed", progress |-> 100,
                                     message |-> "done"])
      [] OTHER -> table

\* the row written by the statement at e.pc
BPWrite(table, e) ==
    CASE e.pc = "stage" ->
            UpdateRow(table, e.job, [progress |-> StageProgress(e.i),
                                     message |-> StageMessage(e.i)])
      [] e.pc = "final" ->
            UpdateRow(table, e.job, [status |-> "completed", progress |-> 100,
                                     message |-> "done"])
      [] e.pc = "except" ->
            UpdateRow(table, e.job, [status |-> "failed",
                                     message |-> MkdirError])
      [] OTHER -> table

\* outputs_dir.mkdir raises for this file id
WorkRaises(f) == f = BadFileId

\* the position after the statement at e.pc
BPAdvance(table, e) ==
    CASE e.pc = "stage" ->
            IF e.i < NumStages THEN [e EXCEPT !.i = e.i + 1]
            ELSE [e EXCEPT !.pc = "artifact", !.i = 0]
      [] e.pc = "artifact" ->
            IF WorkRaises(table[e.job].file_id)
            THEN [e EXCEPT !.pc = "except"]
            ELSE [e EXCEPT !.pc = "final"]
      [] e.pc = "final" -> [e EXCEPT !.pc = "done"]
      [] e.pc = "except" -> [e EXCEPT !.pc = "done"]
      [] OTHER -> e

\* lines 234-240: the song of the job has a row and its file is there
HasSource(f) ==
    /\ f \in SongIds
    /\ songs[f].state = "live"
    /\ songs[f].filename \in DOMAIN files

\* an execution that writes no artifact
BPOutputsNone(table, e) == outputs

\* the artifact written by the statement at e.pc: a copy of the upload
BPOutputs(table, e) ==
    IF e.pc = "artifact" /\ ~WorkRaises(table[e.job].file_id)
                         /\ HasSource(table[e.job].file_id)
    THEN outputs \cup {table[e.job].file_id}
    ELSE outputs

----------------------------------------------------------------------------
(***************************************************************************)
(* start_process: POST /process/<model>/<file_id>                          *)
(***************************************************************************)
\* a dispatch that inserts its row as queued
NewJobRowQueued(f, t) == [status |-> "queued", progress |-> 0,
                          message |-> "queued", file_id |-> f,
                          model |-> ModelName, created_at |-> t]

\* the row start_process inserts
NewJobRow(f, t) == [status |-> "processing", progress |-> 0,
                    message |-> "queued", file_id |-> f, model |-> ModelName,
                    created_at |-> t]

\* the response of each branch: only the branch without a queue returns
\* the 202 body; the others fall off the end of the view function
DispatchResponse(b) ==
    IF b = "thread" THEN [code |-> 202, job_id |-> TRUE, file_id |-> TRUE]
    ELSE [code |-> 500, job_id |-> FALSE, file_id |-> FALSE]

\* a dispatch whose except branch starts nothing
StartsThreadNoFallback(b) == b = "thread"

\* a dispatch that starts no thread at all
StartsNoThread(b) == FALSE

\* does the branch start an in-process thread
StartsThread(b) == b \in {"thread", "fallback"}

\* a dispatch that leaves a message on the queue in every branch
EnqueuesAlways(b) == TRUE

\* does the branch leave a message on the external queue
Enqueues(b) == b = "enqueued"

\* b: "thread" (no queue configured), "enqueued" (enqueue_call succeeded),
\*    "fallback" (enqueue_call raised)
start_process(f, b) ==
    /\ NumJobs < MaxJobs
    /\ LET j == NumJobs + 1 IN
        /\ jobs' = [jobs EXCEPT ![j] = NewJobRow(f, j)]
        /\ thr' = IF StartsThread(b) THEN [thr EXCEPT ![j] = BPStart(j)] ELSE thr
        /\ rq' = IF Enqueues(b) THEN Append(rq, j) ELSE rq
        /\ resp' = [resp EXCEPT ![j] = DispatchResponse(b)]
        /\ branch' = [branch EXCEPT ![j] = b]
    /\ UNCHANGED <<uploadVars, progVars, pollers, poll, worker, outputs, claimedBy>>

\* one statement of the thread start_process started for job j
ThreadStep(j) ==
    /\ Running(thr[j])
    /\ jobs' = BPWrite(jobs, thr[j])
    /\ outputs' = BPOutputs(jobs, thr[j])
    /\ thr' = [thr EXCEPT ![j] = BPAdvance(jobs, thr[j])]
    /\ UNCHANGED <<uploadVars, progVars, pollers, poll, rq, worker, resp, branch, claimedBy>>

----------------------------------------------------------------------------
(***************************************************************************)
(* worker.py: the queue worker runs background_process for each message.   *)
(***************************************************************************)
WorkerTake ==
    /\ ~Running(worker)
    /\ rq # <<>>
    /\ worker' = BPStart(Head(rq))
    /\ rq' = Tail(rq)
    /\ UNCHANGED <<uploadVars, progVars, jobs, thr, pollers, poll, resp, branch, outputs, claimedBy>>

WorkerStep ==
    /\ Running(worker)
    /\ jobs' = BPWrite(jobs, worker)
    /\ outputs' = BPOutputs(jobs, worker)
    /\ worker' = BPAdvance(jobs, worker)
    /\ UNCHANGED <<uploadVars, progVars, thr, pollers, poll, rq, resp, branch, claimedBy>>

----------------------------------------------------------------------------
(***************************************************************************)
(* job_poller                                                              *)
(***************************************************************************)
Queued(table) == {j \in JobIds : table[j].status = "queued"}

\* a SELECT that never finds a row
SelectNothing(table) == 0

\* a SELECT ordered by created_at DESC: the newest queued row
SelectNewest(table) ==
    IF Queued(table) = {} THEN 0
    ELSE CHOOSE j \in Queued(table) :
            \A k \in Queued(table) :
                \/ table[j].created_at > table[k].created_at
                \/ (table[j].created_at = table[k].created_at /\ j >= k)

\* SELECT ... WHERE status='queued' ORDER BY created_at LIMIT 1
\* (0 when no row is queued)
SelectQueued(table) ==
    IF Queued(table) = {} THEN 0
    ELSE CHOOSE j \in Queued(table) :
            \A k \in Queued(table) :
                \/ table[j].created_at < table[k].created_at
                \/ (table[j].created_at = table[k].created_at /\ j <= k)

PollIdle == [pc |-> "select", job |-> 0, run |-> Idle]

\* lines 277-285: the SELECT; with no row the poller sleeps and selects again
PollerSelect(p) ==
    /\ p \in pollers
    /\ poll[p].pc = "select"
    /\ SelectQueued(jobs) # 0
    /\ poll' = [poll EXCEPT ![p] = [pc |-> "update", job |-> SelectQueued(jobs),
                                    run |-> Idle]]
    /\ UNCHANGED <<uploadVars, progVars, jobs, thr, pollers, rq, worker, resp, branch, outputs,
                   claimedBy>>

\* the row after the poller's UPDATE: unconditional, by id
MarkProcessing(table, j) ==
    UpdateRow(table, j, [status |-> "processing", message |-> "taken by poller"])

\* a poller that hands the job to a thread of its own and goes on polling
PollerCallDetached(j) == [next |-> PollIdle, spawned |-> BPStart(j)]

\* line 301: background_process(job_id, ...) is a plain call in the poller
\* thread: the loop stays in it until it returns and spawns nothing
PollerCall(j) ==
    [next |-> [pc |-> "run", job |-> j, run |-> BPStart(j)], spawned |-> Idle]

\* lines 291-301: mark the selected row processing and call background_process
PollerUpdate(p) ==
    /\ p \in pollers
    /\ poll[p].pc = "update"
    /\ jobs' = MarkProcessing(jobs, poll[p].job)
    /\ poll' = [poll EXCEPT ![p] = PollerCall(poll[p].job).next]
    /\ thr' = IF PollerCall(poll[p].job).spawned = Idle THEN thr
              ELSE [thr EXCEPT ![poll[p].job] = PollerCall(poll[p].job).spawned]
    /\ claimedBy' = [claimedBy EXCEPT ![poll[p].job] = @ \cup {p}]
    /\ UNCHANGED <<uploadVars, progVars, pollers, rq, worker, resp, branch, outputs>>

PollDead == [pc |-> "dead", job |-> 0, run |-> Idle]

\* a loop that dies with a job whose work raised
AfterJobUncaught(raised) == IF raised THEN PollDead ELSE PollIdle

\* where the loop is after background_process returned: the next iteration,
\* whether or not the work of the job raised
AfterJob(raised) == PollIdle

\* one statement of background_process in the poller thread
PollerRun(p) ==
    /\ p \in pollers
    /\ poll[p].pc = "run"
    /\ jobs' = BPWrite(jobs, poll[p].run)
    /\ outputs' = BPOutputs(jobs, poll[p].run)
    /\ LET e == BPAdvance(jobs, poll[p].run) IN
        poll' = [poll EXCEPT ![p] =
                    IF Running(e) THEN [poll[p] EXCEPT !.run = e]
                    ELSE AfterJob(poll[p].run.pc = "except")]
    /\ UNCHANGED <<uploadVars, progVars, thr, pollers, rq, worker, resp, branch, claimedBy>>

\* where the loop is after a statement of the iteration raised
\* (lines 306-308: swallow, sleep, next iteration)
AfterRaise == PollIdle

\* the UPDATE of the iteration raises (sqlite error): nothing is written
PollerRaise(p) ==
    /\ p \in pollers
    /\ poll[p].pc = "update"
    /\ poll' = [poll EXCEPT ![p] = AfterRaise]
    /\ UNCHANGED <<uploadVars, progVars, jobs, thr, pollers, rq, worker, resp, branch, outputs,
                   claimedBy>>

----------------------------------------------------------------------------
(***************************************************************************)
(* Writes to the jobs table from outside the request path.                 *)
(***************************************************************************)
\* a row inserted with status 'queued' (crash recovery, administrative
\* re-queue): the only rows the poller's SELECT ever finds
InsertQueued(f) ==
    /\ NumJobs < MaxJobs
    /\ LET j == NumJobs + 1 IN
        jobs' = [jobs EXCEPT ![j] = [status |-> "queued", progress |-> 0,
                                     message |-> "queued", file_id |-> f,
                                     model |-> ModelName, created_at |-> j]]
    /\ UNCHANGED <<uploadVars, progVars, thr, pollers, poll, rq, worker, resp, branch, outputs,
                   claimedBy>>

\* a stuck job marked failed by an administrator
AdminMarkFailed(j) ==
    /\ jobs[j].status = "processing"
    /\ jobs' = UpdateRow(jobs, j, [status |-> "failed", message |-> "stuck"])
    /\ UNCHANGED <<uploadVars, progVars, thr, pollers, poll, rq, worker, resp, branch, outputs,
                   claimedBy>>

\* DELETE /cleanup/<file_id>: remove the outputs directory of the file id
cleanup(f) ==
    /\ outputs' = outputs \ {f}
    /\ last' = [op |-> "cleanup", id |-> f, idx |-> 0, data |-> <<>>,
                code |-> 204, file_id |-> 0]
    /\ UNCHANGED <<progVars, songs, files, sessions, arrival, built, inflight,
                   jobs, thr, pollers, poll, rq, worker, resp, branch, claimedBy>>

----------------------------------------------------------------------------
NoResponse == [code |-> 0, job_id |-> FALSE, file_id |-> FALSE]

InitJobs(ps) ==
    /\ jobs = [j \in JobIds |-> NoRow]
    /\ thr = [j \in JobIds |-> Idle]
    /\ pollers = ps
    /\ poll = [p \in AllPollers |-> PollIdle]
    /\ rq = <<>>
    /\ worker = Idle
    /\ resp = [j \in JobIds |-> NoResponse]
    /\ branch = [j \in JobIds |-> "none"]
    /\ outputs = {}
    /\ claimedBy = [j \in JobIds |-> {}]

Dispatch == \E f \in FileIds, b \in {"thread", "enqueued", "fallback"} :
                start_process(f, b)
Thread == \E j \in JobIds : ThreadStep(j)
Insert == \E f \in FileIds : InsertQueued(f)
Admin == \E j \in JobIds : AdminMarkFailed(j)
Select == \E p \in AllPollers : PollerSelect(p)
Update == \E p \in AllPollers : PollerUpdate(p)
Run == \E p \in AllPollers : PollerRun(p)
Raise == \E p \in AllPollers : PollerRaise(p)

\* the song the jobs are about is uploaded
UploadSong == NumSongs = 0 /\ upload(<<"a", ".", "w">>, <<1>>, EmptyMeta)

NextJobs ==
    \/ UploadSong
    \/ Dispatch
    \/ Thread
    \/ WorkerTake
    \/ WorkerStep
    \/ Insert
    \/ Select
    \/ Update
    \/ Run
    \/ Raise

Cleanup == \E f \in FileIds : cleanup(f)
\* a dispatch for a file id the client got from an upload (uuid4 values
\* cannot be named before), or for one that has no song at all
DispatchUploaded == \E f \in FileIds, b \in {"thread", "enqueued", "fallback"} :
                        /\ f \in SongIds => HasSource(f)
                        /\ start_process(f, b)

\* uploads followed by jobs for them
NextArtifact ==
    \/ UploadSong
    \/ DispatchUploaded
    \/ Thread
    \/ WorkerTake
    \/ WorkerStep
DispatchThread == \E f \in FileIds : start_process(f, "thread")

\* dispatched jobs next to the deletion of songs and outputs
NextLifecycle ==
    \/ UploadSong
    \/ DispatchThread
    \/ Thread
    \/ Delete
    \/ DeleteRow
    \/ Cleanup

NextAdmin ==
    \/ NextJobs
    \/ Admin

\* requests only: no row is inserted from outside, the poller finds nothing
NextDispatch ==
    \/ Dispatch
    \/ Thread
    \/ WorkerTake
    \/ WorkerStep

\* queued rows only: every job is left to the poller
NextPoller ==
    \/ UploadSong
    \/ Insert
    \/ Select
    \/ Update
    \/ Run
    \/ Raise

\* one server process: a single poller
Init == InitJobs({1}) /\ InitUpload /\ InitProgress
Spec == Init /\ [][NextJobs]_vars

\* several processes on one jobs table: one poller each, and an administrator
InitPollers == InitJobs(AllPollers) /\ InitUpload /\ InitProgress
SpecPollers == InitPollers /\ [][NextAdmin]_vars

\* the upload endpoints
SpecUpload == Init /\ [][NextUpload]_vars

\* chunk requests served one after the other, before the concurrent ones
ChunkBefore == (\A w \in Writers : inflight[w].pc = "idle") /\ Chunk
Open == \E w \in Writers, u \in UploadIds, idx \in ChunkIndices, data \in Bodies :
            ChunkOpen(w, u, idx, data)
Write == \E w \in Writers : ChunkWrite(w)

\* a session and two chunk requests served by concurrent threads
NextRace ==
    \/ Create
    \/ ChunkBefore
    \/ Open
    \/ Write

SpecRace == Init /\ [][NextRace]_vars

List == \E w \in Writers, u \in UploadIds : CompleteList(w, u)
AssembleParts == \E w \in Writers : CompleteAssemble(w)
Remove == \E w \in Writers : CompleteRemove(w)

\* a session, its chunk requests and two completions served by concurrent
\* threads
NextComplete ==
    \/ Create
    \/ Chunk
    \/ List
    \/ AssembleParts
    \/ Remove

SpecComplete == Init /\ [][NextComplete]_vars

\* the upload endpoints, called with any path and any index
NextRequests ==
    \/ Create
    \/ ChunkAny
    \/ CompleteAny

SpecRequests == Init /\ [][NextRequests]_vars

\* one tracker, its timer threads and the clock
SpecProgress == Init /\ [][NextProgress]_vars

\* one timer thread, scheduled whenever it is due, on a running clock
FairTimer ==
    /\ Init
    /\ [][NextTimer]_vars
    /\ WF_vars(StepLong)
    /\ WF_vars(TickLong)

\* the events of one tracker
SpecEvents == Init /\ [][NextEvents]_vars

\* jobs dispatched for uploaded songs, nothing being deleted
SpecArtifact == Init /\ [][NextArtifact]_vars

\* jobs, and the songs and outputs they refer to being deleted
SpecLifecycle == Init /\ [][NextLifecycle]_vars

\* uploads, metadata patches and deletions of songs
SpecSongs == Init /\ [][NextSongs]_vars
SpecColumns == Init /\ [][NextColumns]_vars

\* the progress curve as a function
SpecCurve == Init /\ [][NextCurve]_vars

\* a thread or worker that can take a step is scheduled
FairDispatch ==
    /\ Init /\ [][NextDispatch]_vars
    /\ WF_vars(Thread \/ WorkerTake \/ WorkerStep)

\* the poller thread is scheduled, and its iterations do not raise forever
FairPoller ==
    /\ Init /\ [][NextPoller]_vars
    /\ WF_vars(Select \/ Run)
    /\ SF_vars(Update)

----------------------------------------------------------------------------
(***************************************************************************)
(* Properties.                                                             *)
(***************************************************************************)
Terminal == {"completed", "failed"}

\* C1: with several pollers on one jobs table, each job is marked
\* processing and handed to background_process by at most one poller.
C1_AtMostOneClaim == \A j \in JobIds : Cardinality(claimedBy[j]) <= 1

\* the status changes a job may go through
StatusStep(a, b) ==
    \/ a = b
    \/ a = "none" /\ b \in {"queued", "processing"}
    \/ a = "queued" /\ b \in {"processing", "failed"}
    \/ a = "processing" /\ b \in Terminal

\* C2: the status values stored for a job form a subsequence of
\* queued -> processing -> (completed | failed): no write moves a job out
\* of completed or failed, or from processing back to queued.
C2_StatusMonotone ==
    [][\A j \in JobIds : StatusStep(jobs[j].status, jobs'[j].status)]_vars

\* C3: a job whose enqueue raised during dispatch is executed by the
\* fallback thread: it eventually reaches a terminal status.
C3_FallbackRuns ==
    /\ [](\A j \in JobIds : branch[j] = "fallback" =>
                jobs[j].status \in {"processing"} \cup Terminal)
    /\ \A j \in JobIds :
        (branch[j] = "fallback") ~> (jobs[j].status \in Terminal)

C3_Witness ==
    \E j \in JobIds : branch[j] = "fallback" /\ jobs[j].status \in Terminal
                      /\ thr[j].pc = "done"

\* C4: in every branch of dispatch the caller receives 202 with the job id
\* and the file id.
C4_AlwaysAccepted ==
    \A j \in JobIds :
        branch[j] # "none" =>
            resp[j].code = 202 /\ resp[j].job_id /\ resp[j].file_id

\* the session song f was built from held exactly the chunks 0..n-1,
\* each sent once
EachOnce(f, n) ==
    /\ built[f].upload # 0
    /\ ~built[f].arrival.resent
    /\ built[f].arrival.count = n
    /\ DOMAIN built[f].dir = {ChunkName(i) : i \in 0..(n - 1)}

RECURSIVE ByIndex(_, _)
ByIndex(dir, n) ==
    IF n = 0 THEN <<>> ELSE ByIndex(dir, n - 1) \o dir[ChunkName(n - 1)]

\* C5: whatever the order in which chunks 0..n-1 were appended, each once,
\* the completed song downloads as chunk0 ++ chunk1 ++ ... in index order.
C5_ChunkOrder ==
    \A f \in SongIds : \A n \in 1..(MaxIndex + 1) :
        (songs[f].state = "live" /\ EachOnce(f, n)) =>
            download(f) = [code |-> 200, data |-> ByIndex(built[f].dir, n)]

C5_Witness ==
    \E f \in SongIds :
        /\ songs[f].state = "live"
        /\ EachOnce(f, 3)
        /\ built[f].arrival.unordered
        /\ built[f].dir[ChunkName(0)] # built[f].dir[ChunkName(1)]
        /\ download(f).code = 200

\* C6: an append to an existing session succeeds every time and stores
\* exactly the bytes sent under its index, leaving the other chunks alone;
\* re-sending the bytes already stored changes neither the chunk files nor
\* the file they assemble to.
C6_IdempotentChunk ==
    [][\A u \in UploadIds :
        (last'.op = "chunk" /\ last'.id = u /\ DirExists(u)) =>
            LET name == ChunkName(last'.idx)
                old == sessions[u].dir
                new == sessions'[u].dir IN
            /\ last'.code = 204
            /\ DOMAIN new = DOMAIN old \cup {name}
            /\ new[name] = last'.data
            /\ \A n \in DOMAIN old \ {name} : new[n] = old[n]
            /\ (name \in DOMAIN old /\ old[name] = last'.data) =>
                  /\ new = old
                  /\ Assemble(new, SortedParts(new)) = Assemble(old, SortedParts(old))
      ]_vars

C6_Witness ==
    \E u \in UploadIds :
        /\ last.op = "chunk" /\ last.id = u /\ last.code = 204
        /\ arrival[u].resent /\ arrival[u].count = 2
        /\ DOMAIN sessions[u].dir = {ChunkName(last.idx)}
        /\ sessions[u].dir[ChunkName(last.idx)] = last.data

\* C7: after a stage was marked complete or failed, no predictive event
\* of that stage is emitted.
C7_TimerCancelled ==
    ~(emitted.kind = "predictive" /\ stage[emitted.stage] \in {"completed", "failed"})

\* C8: for 0 <= t <= T the predictive value lies strictly between 0 and 95,
\* and so does the progress of the event made from it.
C8_PredictiveCap ==
    sample # NoSample =>
        /\ 0 < sample.value /\ sample.value < 95000
        /\ sample.event = sample.value

C8_Witness ==
    sample # NoSample /\ sample.t = sample.estimated /\ sample.value > 94000

\* C9: the progress stored for a job lies in [0.0, 1.0] and does not
\* decrease while the job is processing.
C9_ProgressMonotone ==
    [][\A j \in JobIds :
        /\ jobs'[j].progress >= 0 /\ jobs'[j].progress <= 100
        /\ (jobs[j].status = "processing" /\ jobs'[j].status = "processing") =>
              jobs'[j].progress >= jobs[j].progress
      ]_vars

\* C10: the poller loop outlives every job and every iteration that
\* raises: it never stops, and a queued job whose work does not raise is
\* claimed and run to completed, also after a job that failed.
C10_LoopSurvives ==
    /\ [](\A p \in AllPollers : poll[p].pc \in {"select", "update", "run"})
    /\ \A j \in JobIds :
        (jobs[j].status = "queued" /\ ~WorkRaises(jobs[j].file_id))
            ~> (jobs[j].status = "completed")

C10_Witness ==
    \E j, k \in JobIds :
        /\ j < k
        /\ jobs[j].status = "failed" /\ claimedBy[j] # {}
        /\ jobs[k].status = "completed" /\ claimedBy[k] # {}

\* some executor ran background_process for job j and has returned from it
Finished(j) ==
    \/ thr[j].pc = "done"
    \/ worker.job = j /\ worker.pc = "done"
    \/ claimedBy[j] # {} /\ \A p \in pollers : poll[p].job # j

\* C11: a job whose work raises is never reported completed, and once its
\* executor has returned (the exception stayed inside background_process)
\* the job is failed with the text of the exception as its message.
C11_FailureRecorded ==
    \A j \in JobIds :
        (Exists(j) /\ WorkRaises(jobs[j].file_id)) =>
            /\ jobs[j].status # "completed"
            /\ Finished(j) =>
                  /\ job_status(j).status = "failed"
                  /\ job_status(j).message = MkdirError

C11_Witness ==
    \E j, k \in JobIds :
        /\ WorkRaises(jobs[j].file_id) /\ WorkRaises(jobs[k].file_id)
        /\ thr[j].pc = "done" /\ jobs[j].status = "failed"
        /\ claimedBy[k] # {} /\ Finished(k) /\ jobs[k].status = "failed"

\* C12: a job created by dispatch has status queued and progress 0 when it
\* is created, and a job handed to the external queue stays queued while
\* its message waits on the queue.
C12_CreatedQueued ==
    [][\A j \in JobIds :
        /\ (branch[j] = "none" /\ branch'[j] # "none") =>
              (jobs'[j].status = "queued" /\ jobs'[j].progress = 0)
        /\ (\E i \in 1..Len(rq') : rq'[i] = j) => jobs'[j].status = "queued"
      ]_vars

\* C13: with no queue configured, a dispatched job whose work does not
\* raise is eventually shown completed by GET /status.
C13_ThreadCompletes ==
    \A j \in JobIds :
        (branch[j] = "thread" /\ ~WorkRaises(jobs[j].file_id))
            ~> (job_status(j).code = 200 /\ job_status(j).status = "completed")

C13_Witness ==
    \E j \in JobIds :
        /\ branch[j] = "thread" /\ ~WorkRaises(jobs[j].file_id)
        /\ resp[j].code = 202
        /\ job_status(j).code = 200 /\ job_status(j).status = "completed"
        /\ job_status(j).progress = 100

\* C14: every job found queued in the table is eventually claimed by the
\* poller and run to a terminal status.
C14_QueuedPickedUp ==
    \A j \in JobIds :
        (jobs[j].status = "queued")
            ~> (claimedBy[j] # {} /\ jobs[j].status \in Terminal)

C14_Witness ==
    \A j \in JobIds :
        /\ claimedBy[j] = {1} /\ jobs[j].status \in Terminal
        /\ poll[1] = PollIdle

\* C15: completing an existing session that holds no chunk gives 400 and
\* changes nothing: no song, no final file, and the session is still there.
C15_NoChunksRefused ==
    [][\A u \in UploadIds :
        (last'.op = "complete" /\ last'.id = u /\ DirExists(u)
            /\ SortedParts(sessions[u].dir) = <<>>) =>
                /\ last'.code = 400
                /\ songs' = songs /\ files' = files /\ sessions' = sessions
                /\ sessions'[u].state = "open"
      ]_vars

C15_Witness ==
    /\ last.op = "complete" /\ last.code = 400
    /\ DirExists(last.id) /\ DOMAIN sessions[last.id].dir = {}
    /\ NumSongs = 0

\* a song was made from session u
Consumed(u) == \E f \in SongIds : built[f].upload = u

NeverCreated(u) == u \notin UploadIds \/ sessions[u].state = "unused"

\* C17: a chunk or completion request with an upload_id no session was
\* created for gives 404 and creates no directory, chunk file or song.
C17_UnknownSession ==
    [][\A u \in RequestIds :
        (NeverCreated(u) /\ last'.op \in {"chunk", "complete"} /\ last'.id = u) =>
            /\ last'.code = 404
            /\ songs' = songs /\ files' = files /\ sessions' = sessions
      ]_vars

\* the chunk indices whose file is in the directory
IndicesIn(dir) == {i \in WideIndices : ChunkName(i) \in DOMAIN dir}

\* the names of the chunks with the indices of S, by ascending index
RECURSIVE ByNumber(_)
ByNumber(S) ==
    IF S = {} THEN <<>>
    ELSE LET m == CHOOSE x \in S : \A y \in S : x <= y
         IN <<ChunkName(m)>> \o ByNumber(S \ {m})

\* C18: for all accepted indices i < j the name written for i sorts before
\* the name written for j, so the sorted parts of a session are in ascending
\* index order and a completed song is assembled in that order.
C18_NameOrder ==
    /\ \A u \in UploadIds :
          DirExists(u) =>
              SortedParts(sessions[u].dir) = ByNumber(IndicesIn(sessions[u].dir))
    /\ \A f \in SongIds :
          (songs[f].state = "live" /\ built[f].upload # 0) =>
              download(f).data =
                  Assemble(built[f].dir, ByNumber(IndicesIn(built[f].dir)))

\* C19: once two concurrent chunk requests for the same session and index
\* have both returned, the chunk holds the complete bytes of one of them,
\* and the other chunks of the session are as they were.
C19_LastWriteWins ==
    \A v, w \in Writers :
        (v # w /\ inflight[v].pc = "done" /\ inflight[w].pc = "done"
            /\ inflight[v].id = inflight[w].id
            /\ inflight[v].idx = inflight[w].idx) =>
                LET dir == sessions[inflight[w].id].dir
                    name == ChunkName(inflight[w].idx) IN
                /\ dir[name] \in {inflight[v].data, inflight[w].data}
                /\ \A n \in DOMAIN inflight[w].before \ {name} :
                      n \in DOMAIN dir /\ dir[n] = inflight[w].before[n]

\* C20: in every state a job whose status is completed has progress 1.0:
\* no write of an executor lowers the progress of a completed job.
C20_CompletedIsFull ==
    \A j \in JobIds : jobs[j].status = "completed" => jobs[j].progress = 100

\* C21: with a single poller, the job a claim marks processing is queued at
\* that moment and no queued job has a smaller created_at: queued jobs are
\* started in creation order and none is overtaken by a later one.
C21_OldestFirst ==
    [][\A j \in JobIds :
          claimedBy'[j] # claimedBy[j] =>
              /\ jobs[j].status = "queued"
              /\ \A k \in Queued(jobs) : jobs[j].created_at <= jobs[k].created_at]_vars

\* C21: job 1 was claimed and is running while job 2, created later, is
\* still queued
C21_Witness ==
    /\ claimedBy[1] # {}
    /\ \E p \in pollers : poll[p].pc = "run" /\ poll[p].job = 1
    /\ jobs[2].status = "queued"
    /\ jobs[1].created_at < jobs[2].created_at

\* a background_process call for job j has started and not yet returned
Executing(j) ==
    \/ Running(thr[j])
    \/ \E q \in AllPollers : poll[q].pc = "run" /\ poll[q].job = j
    \/ (Running(worker) /\ worker.job = j)

\* C22: a poller executes one job at a time: of the jobs it claimed at most
\* one is executing, and while one is executing the poller is inside that
\* call, neither selecting nor claiming another job.
C22_OneAtATime ==
    \A p \in pollers :
        /\ Cardinality({j \in JobIds : p \in claimedBy[j] /\ Executing(j)}) <= 1
        /\ \A j \in JobIds :
              (p \in claimedBy[j] /\ Executing(j)) =>
                  (poll[p].pc = "run" /\ poll[p].job = j)

\* C22: the poller executes job 2 after its execution of job 1 returned
C22_Witness ==
    \E p \in pollers :
        /\ p \in claimedBy[1] /\ p \in claimedBy[2]
        /\ jobs[1].status \in Terminal /\ ~Executing(1)
        /\ poll[p].pc = "run" /\ poll[p].job = 2

\* C23: a job created by dispatch and run by the dispatch thread is never
\* returned by the poller's queued query, never selected and never claimed by
\* a poller, so the poller and the dispatch thread never both execute it.
C23_DispatchNotPolled ==
    \A j \in JobIds :
        branch[j] \in {"thread", "fallback"} =>
            /\ j \notin Queued(jobs)
            /\ claimedBy[j] = {}
            /\ \A q \in AllPollers : poll[q].job # j

\* C23: the dispatch thread executes job 1 while the poller executes job 2
C23_Witness ==
    /\ branch[1] \in {"thread", "fallback"}
    /\ Running(thr[1])
    /\ \E q \in pollers : poll[q].pc = "run" /\ poll[q].job = 2

\* C24: a timer emits an event only when the computed progress exceeds the
\* last emitted one (0 at the start) by at least one point; the event carries
\* that value, so the emitted values increase with gaps of at least one
\* point, stay below 95, and one timer emits at most 94 events.
C24_Throttle ==
    /\ [][\A s \in Stages :
            (timer[s].state = "running" /\ timer'[s].count # timer[s].count) =>
                /\ timer'[s].count = timer[s].count + 1
                /\ timer'[s].last - timer[s].last >= MinDelta
                /\ emitted' = Event(s, timer'[s].last, "predictive")]_vars
    /\ [][(emitted' # emitted /\ emitted'.kind = "predictive") =>
            timer'[emitted'.stage].count = timer[emitted'.stage].count + 1]_vars
    /\ [](\A s \in Stages :
            /\ timer[s].count * MinDelta <= timer[s].last
            /\ timer[s].last < Cap * 1000
            /\ timer[s].count <= Cap - 1)

\* C24: after two events the timer has just run an iteration whose value
\* exceeded the last emitted one by less than a point, and emitted nothing
C24_Witness ==
    \E s \in Stages :
        /\ timer[s].state = "running"
        /\ timer[s].count >= 2
        /\ timer[s].wake = now + 1
        /\ emitted = Event(s, timer[s].last, "predictive")
        /\ PredictiveProgress(now - timer[s].start, timer[s].estimated) > timer[s].last
        /\ PredictiveProgress(now - timer[s].start, timer[s].estimated)
               < timer[s].last + MinDelta

\* C25: every timer thread terminates, for every estimated time T, T <= 0
\* included: the iteration that finds elapsed >= T leaves the loop without
\* emitting, no event is emitted at or after that, an exited timer stays
\* exited, and a timer with T <= 0 leaves on its first iteration without
\* dividing by T.
C25_TimerTerminates ==
    /\ \A s \in Stages :
          (timer[s].state = "running" /\ timer[s].start + timer[s].estimated <= MaxClock)
              ~> (timer[s].state = "exited")
    /\ [](\A s \in Stages :
            /\ timer[s].state # "crashed"
            /\ timer[s].estimated <= 0 => timer[s].count = 0)
    /\ [][\A s \in Stages :
            /\ (timer[s].state = "running" /\ timer'[s].state # "running") =>
                  /\ timer'[s].state = "exited"
                  /\ now - timer[s].start >= timer[s].estimated
                  /\ emitted' = emitted
            /\ (timer[s].state = "running" /\ timer'[s].state = "running"
                    /\ timer'[s] # timer[s]) =>
                  now - timer[s].start < timer[s].estimated
            /\ timer[s].state = "exited" =>
                  (timer'[s] = timer[s] /\ emitted' = emitted)]_vars

\* C25: a timer started with T = 0 has exited without an event
C25_Witness ==
    \E s \in Stages :
        /\ timer[s].state = "exited"
        /\ timer[s].estimated = 0
        /\ timer[s].count = 0
        /\ emitted = Event(s, 0, "start")

\* C26: a complete_* call emits progress exactly 100 for its stage, at any
\* time and whether or not the stage was started, and no event of a timer
\* carries 100.
C26_CompleteIsFull ==
    /\ [][\A s \in AllStages :
            (stage[s] # "completed" /\ stage'[s] = "completed") =>
                /\ emitted'.stage = s
                /\ emitted'.progress = 100000
                /\ emitted'.kind = "complete"]_vars
    /\ [](emitted.kind = "predictive" => emitted.progress < 100000)

\* C26: separation was completed without having been started, after time
\* has passed
C26_Witness ==
    /\ emitted.kind = "complete"
    /\ emitted.stage = "separation"
    /\ emitted.progress = 100000
    /\ timer["separation"].state = "none"
    /\ now > 0

\* C27: for T > 0 the predictive value is strictly increasing in the elapsed
\* time on 0 <= t < T: the value at each sampled t lies strictly below the
\* value one period later, hence below the value at every later t.
C27_StrictlyIncreasing ==
    (sample # NoSample /\ sample.t < sample.estimated) =>
        sample.value < PredictiveProgress(sample.t + 1, sample.estimated)

\* C27: T = 10 s, sampled at 4 s, below the values at 5 s and at 6 s
C27_Witness ==
    /\ sample # NoSample
    /\ sample.estimated = 20
    /\ sample.t = 8
    /\ sample.value < PredictiveProgress(10, 20)
    /\ PredictiveProgress(10, 20) < PredictiveProgress(12, 20)

\* C28: every 'processing_progress' event carries the tracker's file id, a
\* stage, a message and a progress within [0, 100], whatever value a caller
\* passes: a value below 0 is sent as 0 and one above 100 as 100.
C28_EventShape ==
    emitted.kind # "none" =>
        /\ {"file_id", "stage", "progress", "message"} \subseteq DOMAIN emitted
        /\ emitted.file_id = TrackerFile
        /\ emitted.stage \in AllStages \cup {"complete"}
        /\ emitted.progress >= 0 /\ emitted.progress <= 100000
        /\ (emitted.kind = "update" /\ emitted.progress # 50000) =>
               emitted.progress \in {0, 100000}

\* C28: a caller's value above 100 was sent as 100
C28_Witness ==
    /\ emitted.kind = "update"
    /\ emitted.stage = "karaoke"
    /\ emitted.progress = 100000

\* C29: a PATCH on an existing song sets every key of the body in the
\* metadata and leaves the other keys as they were; title and artist take the
\* body's value when the body has the key and keep their value otherwise;
\* nothing else of the song and no other song changes. For an unknown id the
\* answer is 404 and nothing changes.
C29_PatchFrame ==
    [][(last' # last /\ last'.op = "patch") =>
        LET f == last'.id
            body == last'.body
            old == songs[f]
            new == songs'[f] IN
        IF old.state = "live"
        THEN /\ last'.code = 200
             /\ DOMAIN new.metadata = DOMAIN old.metadata \cup DOMAIN body
             /\ \A k \in DOMAIN body : new.metadata[k] = body[k]
             /\ \A k \in DOMAIN old.metadata \ DOMAIN body :
                    new.metadata[k] = old.metadata[k]
             /\ new.title = IF "title" \in DOMAIN body THEN body["title"] ELSE old.title
             /\ new.artist = IF "artist" \in DOMAIN body THEN body["artist"]
                             ELSE old.artist
             /\ new.filename = old.filename /\ new.state = old.state
             /\ \A g \in SongIds \ {f} : songs'[g] = songs[g]
             /\ files' = files
        ELSE /\ last'.code = 404
             /\ songs' = songs /\ files' = files]_vars

\* C29: a song uploaded with a title and an artist was patched with a body
\* that has neither: both columns kept their values and the new key is there
C29_Witness ==
    \E f \in SongIds :
        /\ last.op = "patch" /\ last.id = f /\ last.code = 200
        /\ last.body = [artist |-> "a2", lyrics |-> "l"]
        /\ songs[f].title = "t1"
        /\ songs[f].artist = "a2"
        /\ songs[f].metadata = [title |-> "t1", artist |-> "a2", lyrics |-> "l"]

\* C30: in every reachable state the filename of each song record names a
\* file that exists under the upload root, so that no reader finds a record
\* whose file is missing, also while a deletion is under way.
C30_RecordHasFile ==
    \A f \in SongIds :
        songs[f].state = "live" =>
            /\ songs[f].filename \in DOMAIN files
            /\ download(f).code = 200

\* C31: when DELETE /songs/<id> has answered for an existing song, the row is
\* gone (GET /songs/<id> and the download answer 404) and its file is gone;
\* the only file a deletion removes is the one of that song, the only row the
\* one of that song; for an unknown id the answer is 204 and nothing changes.
C31_DeleteRemovesBoth ==
    [][
        /\ \A f \in SongIds :
            (songs[f].state = "live" /\ songs'[f].state # "live") =>
                /\ last'.op = "delete" /\ last'.id = f /\ last'.code = 204
                /\ songs[f].filename \notin DOMAIN files'
                /\ (download(f).code = 404)'
                /\ \A g \in SongIds \ {f} : songs'[g] = songs[g]
                /\ files' = files
        /\ \A name \in DOMAIN files \ DOMAIN files' :
                /\ \E f \in SongIds : songs[f].state = "live" /\ songs[f].filename = name
                /\ DOMAIN files' = DOMAIN files \ {name}
                /\ \A n \in DOMAIN files' : files'[n] = files[n]
                /\ songs' = songs
        /\ (last' # last /\ last'.op = "delete" /\ last'.file_id = 0) =>
                /\ last'.code = 204
                /\ songs[last'.id].state # "live"
                /\ songs' = songs /\ files' = files]_vars

\* C31: song 1 was deleted; song 2 and its file are still there
C31_Witness ==
    /\ last.op = "delete" /\ last.id = 1 /\ last.code = 204
    /\ songs[1].state = "deleted"
    /\ songs[2].state = "live"
    /\ songs[2].filename \in DOMAIN files
    /\ Cardinality(DOMAIN files) = 1

\* C32: no step removes a job row or changes its file_id, model or
\* created_at: a job that exists is returned by GET /status/<job_id> in every
\* later state, also after its song was deleted or its outputs cleaned up.
C32_JobsKept ==
    [][\A j \in JobIds :
          Exists(j) =>
              /\ jobs'[j].status # "none"
              /\ jobs'[j].file_id = jobs[j].file_id
              /\ jobs'[j].model = jobs[j].model
              /\ jobs'[j].created_at = jobs[j].created_at
              /\ (job_status(j).code = 200)'
              /\ (job_status(j).file_id = jobs[j].file_id)']_vars

\* C32: job 1 completed for song 1; the song was deleted and the outputs
\* cleaned up, and the job is still returned
C32_Witness ==
    /\ last.op = "cleanup" /\ last.id = 1
    /\ songs[1].state = "deleted"
    /\ jobs[1].status = "completed" /\ jobs[1].file_id = 1
    /\ jobs[1].model = ModelName
    /\ 1 \notin outputs
    /\ job_status(1).code = 200

OnQueue == {rq[i] : i \in 1..Len(rq)} \cup (IF Running(worker) THEN {worker.job} ELSE {})

\* C34: a dispatch starts exactly one execution of the job it created, one
\* queue message or one thread, never both and never neither; no later step
\* starts a thread or adds a message for it, a message is taken once, so
\* background_process runs at most once per dispatched job.
C34_OneExecution ==
    /\ [][\A j \in JobIds :
            /\ branch'[j] # branch[j] =>
                  \/ (thr'[j] = BPStart(j) /\ rq' = rq)
                  \/ (thr'[j] = Idle /\ rq' = Append(rq, j))
            /\ branch'[j] = branch[j] =>
                  /\ thr[j] = Idle => thr'[j] = Idle
                  /\ j \notin OnQueue => j \notin OnQueue'
            /\ thr[j].pc = "done" => thr'[j] = thr[j]]_vars
    /\ [](\A j \in JobIds :
            /\ ~(thr[j] # Idle /\ j \in OnQueue)
            /\ Cardinality({i \in 1..Len(rq) : rq[i] = j}) <= 1
            /\ ~(Running(worker) /\ worker.job = j /\ \E i \in 1..Len(rq) : rq[i] = j))

\* C34: job 1 went to the queue and is run by the worker, job 2 runs in the
\* thread started after its enqueue raised
C34_Witness ==
    /\ branch[1] = "enqueued" /\ Running(worker) /\ worker.job = 1 /\ thr[1] = Idle
    /\ branch[2] = "fallback" /\ Running(thr[2]) /\ 2 \notin OnQueue

\* C35: an upload session yields at most one song, however the steps of
\* concurrent complete requests on it interleave.
C35_OneSongPerSession ==
    \A u \in UploadIds :
        Cardinality({f \in SongIds : songs[f].state = "live" /\ built[f].upload = u}) <= 1

\* C36: an acknowledged chunk is not lost: when a completion removes a
\* session, every chunk stored in it (each was answered 204) is part of a
\* song assembled from that session, with the bytes that were acknowledged.
C36_AckedChunkKept ==
    [][\A u \in UploadIds :
          (DirExists(u) /\ ~DirExists(u)') =>
              \A name \in DOMAIN sessions[u].dir :
                  \E f \in SongIds :
                      /\ songs'[f].state = "live"
                      /\ built'[f].upload = u
                      /\ name \in DOMAIN built'[f].dir
                      /\ built'[f].dir[name] = sessions[u].dir[name]]_vars

\* the chunks of dir with an index from i on, present ones only, by
\* ascending index
RECURSIVE PresentFrom(_, _)
PresentFrom(dir, i) ==
    IF i > MaxIndex THEN <<>>
    ELSE (IF ChunkName(i) \in DOMAIN dir THEN dir[ChunkName(i)] ELSE <<>>)
            \o PresentFrom(dir, i + 1)

C38_CompleteIsLast ==
    [][
        (/\ emitted = AllDoneEvent
         /\ stage["upload"] = "completed"
         /\ stage["separation"] = "completed")
        => ~(/\ emitted'.kind = "predictive"
             /\ emitted'.file_id = AllDoneEvent.file_id)
    ]_vars

\* C39: after any sequence of upload, complete_upload and PATCH requests,
\* the title and artist columns of every song equal the 'title' and
\* 'artist' entries of its metadata, None where the metadata has no such
\* entry.
C39_ColumnsMatchMetadata ==
    \A f \in SongIds :
        songs[f].state = "live" =>
            /\ songs[f].title = Get(songs[f].metadata, "title")
            /\ songs[f].artist = Get(songs[f].metadata, "artist")
====
